---- MODULE Spec2Model ----
(***************************************************************************)
(* cdumay_error_http: conversion of an HTTP status code into a structured  *)
(* cdumay_error::Error (src/src/lib.rs).                                   *)
(*                                                                         *)
(* The crate is a registry of error kinds (define_kinds!), one error type  *)
(* per kind (define_errors!) and the converter HTTPErrorConverter with its *)
(* two entry points from_u16 and from_status.  The converter keeps no      *)
(* state; the model observes it through the log of the completed calls.    *)
(*                                                                         *)
(* Option<T> is modelled as a sequence of length at most one: <<>> is None *)
(* and <<v>> is Some(v).  A BTreeMap<String, Value> is a function from its *)
(* set of keys to its values.                                              *)
(***************************************************************************)
EXTENDS Integers, Sequences, FiniteSets, TLC

VARIABLES
    registry,   \* the kinds declared by define_kinds! (static data)
    calls       \* the completed conversion calls, oldest first

vars == <<registry, calls>>

------------------------------------------------------------------------------
\* Bounds of the model.

\* from_u16 is called with every status in 0..MaxStatus and with U16Max.
MaxStatus == 1023
\* SpecSeq keeps at most MaxCalls completed calls in the log.
MaxCalls == 3

\* The largest value of the u16 parameter `status`.
U16Max == 65535

------------------------------------------------------------------------------
\* The registry.

\* A kind as define_kinds! builds it: message id, http status, description.
Kind(id, status, label) == [message_id |-> id, code |-> status, description |-> label]

\* define_kinds!: one kind per entry (message id, http status, description).
MultipleChoices == Kind("HTTP-11298", 300, "Multiple Choices")
MovedPermanently == Kind("HTTP-23108", 301, "Moved Permanently")
Found == Kind("HTTP-07132", 302, "HttpRedirection302")
SeeOther == Kind("HTTP-16746", 303, "See Other")
NotModified == Kind("HTTP-21556", 304, "Not Modified")
UseProxy == Kind("HTTP-31839", 305, "Use Proxy")
TemporaryRedirect == Kind("HTTP-25446", 307, "Temporary Redirect")
PermanentRedirect == Kind("HTTP-12280", 308, "Permanent Redirect")
BadRequest == Kind("HTTP-26760", 400, "Bad Request")
Unauthorized == Kind("HTTP-08059", 401, "HttpClientError401")
PaymentRequired == Kind("HTTP-18076", 402, "Payment Required")
\* Mutant of Forbidden: the message id of Unauthorized is used again.
Forbidden_reused_id == Kind("HTTP-08059", 403, "HttpClientError403")
Forbidden == Kind("HTTP-23134", 403, "HttpClientError403")
NotFound == Kind("HTTP-18430", 404, "Not HttpRedirection302")
MethodNotAllowed == Kind("HTTP-23585", 405, "Method Not Allowed")
NotAcceptable == Kind("HTTP-04289", 406, "Not Acceptable")
ProxyAuthenticationRequired == Kind("HTTP-17336", 407, "Proxy Authentication Required")
RequestTimeout == Kind("HTTP-00565", 408, "Request Timeout")
Conflict == Kind("HTTP-08442", 409, "HttpClientError409")
Gone == Kind("HTTP-19916", 410, "HttpClientError410")
LengthRequired == Kind("HTTP-09400", 411, "Length Required")
PreconditionFailed == Kind("HTTP-22509", 412, "Precondition Failed")
PayloadTooLarge == Kind("HTTP-10591", 413, "Payload Too Large")
UriTooLong == Kind("HTTP-01377", 414, "URI Too Long")
UnsupportedMediaType == Kind("HTTP-12512", 415, "Unsupported Media Type")
RangeNotSatisfiable == Kind("HTTP-21696", 416, "Range Not Satisfiable")
ExpectationFailed == Kind("HTTP-16872", 417, "Expectation Failed")
ImATeapot == Kind("HTTP-23719", 418, "I'm a teapot")
MisdirectedRequest == Kind("HTTP-26981", 421, "Misdirected Request")
UnprocessableEntity == Kind("HTTP-12568", 422, "Unprocessable Entity")
Locked == Kind("HTTP-32695", 423, "HttpClientError423")
FailedDependency == Kind("HTTP-19693", 424, "Failed Dependency")
UpgradeRequired == Kind("HTTP-22991", 426, "Upgrade Required")
PreconditionRequired == Kind("HTTP-02452", 428, "Precondition Required")
TooManyRequests == Kind("HTTP-12176", 429, "Too Many Requests")
RequestHeaderFieldsTooLarge == Kind("HTTP-07756", 431, "Request Header Fields Too Large")
UnavailableForLegalReasons == Kind("HTTP-12136", 451, "Unavailable For Legal Reasons")
InternalServerError == Kind("HTTP-09069", 500, "Internal Server Error")
NotImplemented == Kind("HTTP-03394", 501, "Not Implemented")
BadGateway == Kind("HTTP-19734", 502, "Bad Gateway")
ServiceUnavailable == Kind("HTTP-18979", 503, "Service Unavailable")
GatewayTimeout == Kind("HTTP-17595", 504, "Gateway Timeout")
HttpVersionNotSupported == Kind("HTTP-01625", 505, "HTTP Version Not Supported")
VariantAlsoNegotiates == Kind("HTTP-28382", 506, "Variant Also Negotiates")
InsufficientStorage == Kind("HTTP-32132", 507, "Insufficient Storage")
LoopDetected == Kind("HTTP-30770", 508, "Loop Detected")
NotExtended == Kind("HTTP-19347", 510, "Not Extended")
NetworkAuthenticationRequired == Kind("HTTP-31948", 511, "Network Authentication Required")

\* The kinds define_kinds! declares, as one table.
define_kinds ==
    { MultipleChoices, MovedPermanently, Found, SeeOther,
      NotModified, UseProxy, TemporaryRedirect, PermanentRedirect,
      BadRequest, Unauthorized, PaymentRequired, Forbidden,
      NotFound, MethodNotAllowed, NotAcceptable, ProxyAuthenticationRequired,
      RequestTimeout, Conflict, Gone, LengthRequired,
      PreconditionFailed, PayloadTooLarge, UriTooLong, UnsupportedMediaType,
      RangeNotSatisfiable, ExpectationFailed, ImATeapot, MisdirectedRequest,
      UnprocessableEntity, Locked, FailedDependency, UpgradeRequired,
      PreconditionRequired, TooManyRequests, RequestHeaderFieldsTooLarge, UnavailableForLegalReasons,
      InternalServerError, NotImplemented, BadGateway, ServiceUnavailable,
      GatewayTimeout, HttpVersionNotSupported, VariantAlsoNegotiates, InsufficientStorage,
      LoopDetected, NotExtended, NetworkAuthenticationRequired }

\* define_errors!: each error type is bound to the kind it is built from.
HttpRedirection300 == MultipleChoices
HttpRedirection301 == MovedPermanently
HttpRedirection302 == Found
HttpRedirection303 == SeeOther
HttpRedirection304 == NotModified
HttpRedirection305 == UseProxy
HttpRedirection307 == TemporaryRedirect
HttpRedirection308 == PermanentRedirect
HttpClientError400 == BadRequest
HttpClientError401 == Unauthorized
HttpClientError402 == PaymentRequired
HttpClientError403 == Forbidden
\* Mutant of HttpClientError404: the type is bound to the kind of 403.
HttpClientError404_as_403 == Forbidden
HttpClientError404 == NotFound
HttpClientError405 == MethodNotAllowed
HttpClientError406 == NotAcceptable
HttpClientError407 == ProxyAuthenticationRequired
HttpClientError408 == RequestTimeout
HttpClientError409 == Conflict
HttpClientError410 == Gone
HttpClientError411 == LengthRequired
HttpClientError412 == PreconditionFailed
HttpClientError413 == PayloadTooLarge
HttpClientError414 == UriTooLong
HttpClientError415 == UnsupportedMediaType
HttpClientError416 == RangeNotSatisfiable
HttpClientError417 == ExpectationFailed
HttpClientError418 == ImATeapot
HttpClientError421 == MisdirectedRequest
HttpClientError422 == UnprocessableEntity
HttpClientError423 == Locked
HttpClientError424 == FailedDependency
HttpClientError425 == UpgradeRequired
HttpClientError428 == PreconditionRequired
HttpClientError429 == TooManyRequests
HttpClientError431 == RequestHeaderFieldsTooLarge
HttpClientError451 == UnavailableForLegalReasons
\* Mutant of HttpServerError500: the type is bound to the kind of 501.
HttpServerError500_as_501 == NotImplemented
HttpServerError500 == InternalServerError
HttpServerError501 == NotImplemented
HttpServerError502 == BadGateway
HttpServerError503 == ServiceUnavailable
HttpServerError504 == GatewayTimeout
HttpServerError505 == HttpVersionNotSupported
HttpServerError506 == VariantAlsoNegotiates
HttpServerError507 == InsufficientStorage
HttpServerError508 == LoopDetected
HttpServerError510 == NotExtended
HttpServerError511 == NetworkAuthenticationRequired

------------------------------------------------------------------------------
\* Construction of an error.

\* <Type>::new(): an error of the type's kind, carrying the kind's description
\* as message and no details.
new(kind) == [class |-> kind, message |-> kind.description, details |-> <<>>]

\* Mutant of set_details: the context is dropped.
set_details_dropped(e, context) == e

\* .set_details(context): the details become Some(context).
set_details(e, context) == [e EXCEPT !.details = <<context>>]

\* Error::from(e): the generic error with the kind, message and details of e.
Error_from(e) == [kind |-> e.class, message |-> e.message, details |-> e.details]

\* The match of from_u16: one arm per mapped status, then the wildcard arm.
match_status(status, context) ==
        CASE status = 300 -> Error_from(set_details(new(HttpRedirection300), context))
        [] status = 301 -> Error_from(set_details(new(HttpRedirection301), context))
        [] status = 302 -> Error_from(set_details(new(HttpRedirection302), context))
        [] status = 303 -> Error_from(set_details(new(HttpRedirection303), context))
        [] status = 304 -> Error_from(set_details(new(HttpRedirection304), context))
        [] status = 305 -> Error_from(set_details(new(HttpRedirection305), context))
        [] status = 307 -> Error_from(set_details(new(HttpRedirection307), context))
        [] status = 308 -> Error_from(set_details(new(HttpRedirection308), context))
        [] status = 400 -> Error_from(set_details(new(HttpClientError400), context))
        [] status = 401 -> Error_from(set_details(new(HttpClientError401), context))
        [] status = 402 -> Error_from(set_details(new(HttpClientError402), context))
        [] status = 403 -> Error_from(set_details(new(HttpClientError403), context))
        [] status = 404 -> Error_from(set_details(new(HttpClientError404), context))
        [] status = 405 -> Error_from(set_details(new(HttpClientError405), context))
        [] status = 406 -> Error_from(set_details(new(HttpClientError406), context))
        [] status = 407 -> Error_from(set_details(new(HttpClientError407), context))
        [] status = 408 -> Error_from(set_details(new(HttpClientError408), context))
        [] status = 409 -> Error_from(set_details(new(HttpClientError409), context))
        [] status = 410 -> Error_from(set_details(new(HttpClientError410), context))
        [] status = 411 -> Error_from(set_details(new(HttpClientError411), context))
        [] status = 412 -> Error_from(set_details(new(HttpClientError412), context))
        [] status = 413 -> Error_from(set_details(new(HttpClientError413), context))
        [] status = 414 -> Error_from(set_details(new(HttpClientError414), context))
        [] status = 415 -> Error_from(set_details(new(HttpClientError415), context))
        [] status = 416 -> Error_from(set_details(new(HttpClientError416), context))
        [] status = 417 -> Error_from(set_details(new(HttpClientError417), context))
        [] status = 418 -> Error_from(set_details(new(HttpClientError418), context))
        [] status = 421 -> Error_from(set_details(new(HttpClientError421), context))
        [] status = 422 -> Error_from(set_details(new(HttpClientError422), context))
        [] status = 423 -> Error_from(set_details(new(HttpClientError423), context))
        [] status = 424 -> Error_from(set_details(new(HttpClientError424), context))
        [] status = 426 -> Error_from(set_details(new(HttpClientError425), context))
        [] status = 428 -> Error_from(set_details(new(HttpClientError428), context))
        [] status = 429 -> Error_from(set_details(new(HttpClientError429), context))
        [] status = 431 -> Error_from(set_details(new(HttpClientError431), context))
        [] status = 451 -> Error_from(set_details(new(HttpClientError451), context))
        [] status = 501 -> Error_from(set_details(new(HttpServerError501), context))
        [] status = 502 -> Error_from(set_details(new(HttpServerError502), context))
        [] status = 503 -> Error_from(set_details(new(HttpServerError503), context))
        [] status = 504 -> Error_from(set_details(new(HttpServerError504), context))
        [] status = 505 -> Error_from(set_details(new(HttpServerError505), context))
        [] status = 506 -> Error_from(set_details(new(HttpServerError506), context))
        [] status = 507 -> Error_from(set_details(new(HttpServerError507), context))
        [] status = 508 -> Error_from(set_details(new(HttpServerError508), context))
        [] status = 510 -> Error_from(set_details(new(HttpServerError510), context))
        [] status = 511 -> Error_from(set_details(new(HttpServerError511), context))
        [] OTHER -> Error_from(set_details(new(HttpServerError500), context))

\* The statuses that have a kind in the registry.
mapped_statuses == {k.code : k \in define_kinds}

\* Mutant of from_u16: the message override is forgotten.
from_u16_keeps_default(status, text, context) == match_status(status, context)

\* Mutant of from_u16: a status without a kind gets a kind of its own instead
\* of the kind of a real 500 response.
from_u16_own_fallback(status, text, context) ==
    LET error == IF status \in mapped_statuses
                 THEN match_status(status, context)
                 ELSE Error_from(set_details(new(Kind("HTTP-00000", 500, "Unknown Status")), context))
    IN  IF text # <<>> THEN [error EXCEPT !.message = text[1]] ELSE error

\* Mutant of from_u16: the wildcard arm panics instead of falling back.
from_u16_panics(status, text, context) ==
    IF status \in mapped_statuses
    THEN LET error == match_status(status, context)
         IN  IF text # <<>> THEN [error EXCEPT !.message = text[1]] ELSE error
    ELSE [panicked |-> "unreachable"]

\* Mutant of from_u16: the message is kept in a buffer shared by the calls, and
\* a call without text returns what the previous call left in it.
from_u16_stale_message(status, text, context) ==
    LET error == match_status(status, context)
    IN  IF text # <<>> THEN [error EXCEPT !.message = text[1]]
        ELSE IF calls # <<>> THEN [error EXCEPT !.message = calls[Len(calls)].error.message]
        ELSE error

\* HTTPErrorConverter::from_u16: resolve the kind, attach the context, then let
\* a given text replace the message.
from_u16(status, text, context) ==
    LET error == match_status(status, context)
    IN  IF text # <<>> THEN [error EXCEPT !.message = text[1]] ELSE error

\* http::StatusCode: a typed status code wraps its number.
StatusCode(n) == [nz |-> n]

\* StatusCode::as_u16: the number a typed status code wraps.
as_u16(status) == status.nz

\* Mutant of from_status: the text is not passed on.
from_status_drops_text(status, text, context) == from_u16(as_u16(status), <<>>, context)

\* HTTPErrorConverter::from_status: from_u16 on the number of the typed code.
from_status(status, text, context) == from_u16(as_u16(status), text, context)

------------------------------------------------------------------------------
\* The inputs of the calls.

\* The values of the u16 parameter the model calls from_u16 with.
Statuses == (0..MaxStatus) \cup {U16Max}

\* The typed status codes: http::StatusCode holds a number in 100..999.
StatusCodes == {StatusCode(n) : n \in {m \in Statuses : m >= 100 /\ m <= 999}}

\* The optional texts.
Texts == {<<>>, <<"custom">>, <<"Internal Server Error">>, <<"">>}

\* The keys and values of the contexts.
Keys == {"key", "foo"}
Values == {"value", "bar"}

\* The contexts: every map from a subset of Keys to Values, the empty map included.
Contexts == UNION {[S -> Values] : S \in SUBSET Keys}

\* The inputs of the calls SpecSeq makes one after the other.
SeqStatuses == {404, 500, 999}
SeqTexts == {<<>>, <<"custom">>}
SeqContexts == {c \in Contexts : DOMAIN c \subseteq {"key"} /\ \A k \in DOMAIN c : c[k] = "value"}

\* A completed call: the entry point, the status in its integer form, the
\* other arguments and the error returned.
Completed(op, status, text, context, error) ==
    [op |-> op, status |-> status, text |-> text, context |-> context, error |-> error]

------------------------------------------------------------------------------
\* The state machine.

Init ==
    /\ registry = define_kinds
    /\ calls = <<>>

\* A call of from_u16 on the converter as constructed, with any arguments.
FromU16 ==
    /\ calls = <<>>
    /\ \E status \in Statuses, text \in Texts, context \in Contexts :
           calls' = <<Completed("from_u16", status, text, context,
                                from_u16(status, text, context))>>
    /\ UNCHANGED registry

\* A call of from_status on the converter as constructed, with any arguments.
FromStatus ==
    /\ calls = <<>>
    /\ \E status \in StatusCodes, text \in Texts, context \in Contexts :
           calls' = <<Completed("from_status", as_u16(status), text, context,
                                from_status(status, text, context))>>
    /\ UNCHANGED registry

Next ==
    \/ FromU16
    \/ FromStatus

Spec == Init /\ [][Next]_vars

\* A call of from_u16 after the calls already made; the log keeps them all.
SeqFromU16 ==
    /\ Len(calls) < MaxCalls
    /\ \E status \in SeqStatuses, text \in SeqTexts, context \in SeqContexts :
           calls' = Append(calls, Completed("from_u16", status, text, context,
                                            from_u16(status, text, context)))
    /\ UNCHANGED registry

\* A call of from_status after the calls already made; the log keeps them all.
SeqFromStatus ==
    /\ Len(calls) < MaxCalls
    /\ \E status \in {StatusCode(n) : n \in SeqStatuses}, text \in SeqTexts,
          context \in SeqContexts :
           calls' = Append(calls, Completed("from_status", as_u16(status), text, context,
                                            from_status(status, text, context)))
    /\ UNCHANGED registry

NextSeq ==
    \/ SeqFromU16
    \/ SeqFromStatus

SpecSeq == Init /\ [][NextSeq]_vars

------------------------------------------------------------------------------
\* The properties of the converter.

\* The statuses the registry is said to hold a kind for.
SupportedStatuses ==
    (300..305) \cup {307, 308} \cup (400..418) \cup (421..424)
        \cup {426, 428, 429, 431, 451} \cup (500..508) \cup {510, 511}

\* The completed calls of from_u16.
U16Calls == {calls[i] : i \in {j \in DOMAIN calls : calls[j].op = "from_u16"}}

\* The completed calls of from_status.
StatusCalls == {calls[i] : i \in {j \in DOMAIN calls : calls[j].op = "from_status"}}

\* C1: the registry holds a kind for exactly the 47 supported statuses, and
\* from_u16(s, None, ctx) on a supported status s returns an error whose kind
\* has http status s and the stable code the registry holds for s
\* (404 -> "HTTP-18430", 426 -> "HTTP-22991", 500 -> "HTTP-09069").
C1_SupportedStatusGetsItsKind ==
    /\ {k.code : k \in registry} = SupportedStatuses
    /\ Cardinality(registry) = 47
    /\ \A c \in U16Calls :
           (c.status \in SupportedStatuses /\ c.text = <<>>) =>
               /\ c.error.kind.code = c.status
               /\ \E k \in registry : k.code = c.status
               /\ \A k \in registry :
                      k.code = c.status => c.error.kind.message_id = k.message_id
               /\ (c.status = 404 => c.error.kind.message_id = "HTTP-18430")
               /\ (c.status = 426 => c.error.kind.message_id = "HTTP-22991")
               /\ (c.status = 500 => c.error.kind.message_id = "HTTP-09069")

\* from_u16(404, None, {"key": "value"}) has returned the kind of 404.
C1_Witness ==
    \E c \in U16Calls :
        /\ c.status = 404 /\ c.text = <<>> /\ c.context = [k \in {"key"} |-> "value"]
        /\ c.error.kind.code = 404 /\ c.error.kind.message_id = "HTTP-18430"

\* C2: from_u16 on a status without a kind in the registry returns the
\* fallback kind: http status 500, stable code "HTTP-09069", and the message
\* "Internal Server Error" when no text is given.
C2_UnsupportedStatusFallsBack ==
    \A c \in U16Calls :
        c.status \notin SupportedStatuses =>
            /\ c.error.kind.code = 500
            /\ c.error.kind.message_id = "HTTP-09069"
            /\ (c.text = <<>> => c.error.message = "Internal Server Error")

\* from_u16(999, None, ctx) has returned the fallback kind.
C2_Witness ==
    \E c \in U16Calls :
        /\ c.status = 999 /\ c.text = <<>>
        /\ c.error.kind.code = 500 /\ c.error.message = "Internal Server Error"

\* C3: the message of the error from_u16 returns is the text when one is
\* given and the description of the resolved kind when none is, for every
\* status, the unsupported ones included.
C3_MessageIsTextOrDefault ==
    \A c \in U16Calls :
        /\ (c.text # <<>> => c.error.message = c.text[1])
        /\ (c.text = <<>> => c.error.message = c.error.kind.description)

\* A text has replaced the message of the fallback kind.
C3_Witness ==
    \E c \in U16Calls :
        /\ c.status = 600 /\ c.text = <<"custom">>
        /\ c.error.kind.code = 500 /\ c.error.message = "custom"
        /\ c.error.kind.description # "custom"

\* C4: the details of the error from_u16 returns are the context it was given:
\* every key of the context is present with its value and no key is added,
\* whatever the status and the text.
C4_ContextIsKept ==
    \A c \in U16Calls :
        /\ Len(c.error.details) = 1
        /\ DOMAIN c.error.details[1] = DOMAIN c.context
        /\ \A k \in DOMAIN c.context : c.error.details[1][k] = c.context[k]

\* A context of two keys came back on the fallback path with the message
\* overridden.
C4_Witness ==
    \E c \in U16Calls :
        /\ c.status = 0 /\ c.text = <<"custom">>
        /\ DOMAIN c.context = {"key", "foo"}
        /\ c.error.details = <<c.context>>

\* C5: from_u16(425, None, ctx) returns an error whose kind has http status
\* 425 and a stable code that is neither the one returned for 426 nor the one
\* of the fallback kind.
C5_TooEarlyHasItsOwnKind ==
    \A c \in U16Calls :
        (c.status = 425 /\ c.text = <<>>) =>
            /\ c.error.kind.code = 425
            /\ c.error.kind.message_id # from_u16(426, <<>>, c.context).kind.message_id
            /\ c.error.kind.message_id # HttpServerError500.message_id

\* C6, as stated: the error from_u16 returns for a status without a kind
\* differs in kind http status or in kind stable code from the error it
\* returns for 500 with the same text and context.
C6_FallbackDiffersFrom500 ==
    \A c \in U16Calls :
        c.status \notin SupportedStatuses =>
            LET real == from_u16(500, c.text, c.context)
            IN  \/ c.error.kind.code # real.kind.code
                \/ c.error.kind.message_id # real.kind.message_id

\* C6, amended: the error from_u16 returns for a status without a kind has the
\* kind http status, the kind stable code, the message and the details of the
\* error it returns for 500 with the same text and context.
C6_FallbackSameAs500 ==
    \A c \in U16Calls :
        c.status \notin SupportedStatuses =>
            LET real == from_u16(500, c.text, c.context)
            IN  /\ c.error.kind.code = real.kind.code
                /\ c.error.kind.message_id = real.kind.message_id
                /\ c.error.message = real.message
                /\ c.error.details = real.details

\* from_u16(509, ...) has returned what a real 500 gets.
C6_Witness ==
    \E c \in U16Calls :
        /\ c.status = 509
        /\ c.error.kind = InternalServerError
        /\ c.error = from_u16(500, c.text, c.context)

\* The statuses a call is compared with: every status from 300 to 511, mapped
\* or not, and three statuses outside that range.
OtherStatuses == (300..511) \cup {0, 999, U16Max}

\* The kind from_u16 resolves each of them to.
KindOfStatus == [b \in OtherStatuses |-> from_u16(b, <<>>, <<>>).kind]

\* C7: the registry holds one kind per http status and no stable code twice;
\* the error of a call and the error of from_u16 on any other status have the
\* same stable code if and only if they have the same kind http status.
C7_OneKindPerStatusUniqueCodes ==
    /\ \A k1, k2 \in registry :
           (k1.code = k2.code \/ k1.message_id = k2.message_id) => k1 = k2
    /\ \A c \in U16Calls :
           \A b \in OtherStatuses :
               (c.error.kind.message_id = KindOfStatus[b].message_id)
                   <=> (c.error.kind.code = KindOfStatus[b].code)

\* from_u16(403, ...) has returned a stable code no other kind of the registry
\* has.
C7_Witness ==
    \E c \in U16Calls :
        /\ c.status = 403 /\ c.error.kind \in registry
        /\ \A k \in registry \ {c.error.kind} :
               k.message_id # c.error.kind.message_id /\ k.code # 403

\* The messages a returned error can carry.
Messages == {k.description : k \in registry} \cup {t[1] : t \in Texts \ {<<>>}}

\* C8: from_u16 returns, for every status, text and context, an error with a
\* kind of the registry, a message and the context; no call ends otherwise.
C8_AlwaysReturnsAnError ==
    \A c \in U16Calls :
        /\ DOMAIN c.error = {"kind", "message", "details"}
        /\ c.error.kind \in registry
        /\ c.error.message \in Messages
        /\ c.error.details = <<c.context>>

\* from_u16 has returned an error for the largest u16 and the empty context.
C8_Witness ==
    \E c \in U16Calls :
        /\ c.status = U16Max /\ c.text = <<>> /\ DOMAIN c.context = {}
        /\ c.error.kind \in registry

\* C9: from_status(c, text, ctx) returns an error with the kind stable code,
\* kind http status, message and details of from_u16(c.as_u16(), text, ctx).
C9_FromStatusIsFromU16 ==
    \A c \in StatusCalls :
        LET same == from_u16(as_u16(StatusCode(c.status)), c.text, c.context)
        IN  /\ c.error.kind.message_id = same.kind.message_id
            /\ c.error.kind.code = same.kind.code
            /\ c.error.message = same.message
            /\ c.error.details = same.details

\* from_status(200, Some("custom"), ctx) has returned the fallback kind with
\* the text as message.
C9_Witness ==
    \E c \in StatusCalls :
        /\ c.status = 200 /\ c.text = <<"custom">>
        /\ c.error.kind.code = 500 /\ c.error.message = "custom"

====
